---- MODULE Spec2Model ----
(***************************************************************************)
(* Model of the two batch utilities of deafrica-scripts:                   *)
(*   - deafrica/monitoring/landsat_gap_report.py  (generate_buckets_diff)  *)
(*   - deafrica/data/chirps.py                    (download_and_cog_chirps)*)
(*                                                                         *)
(* Representation.  A path or URL is a sequence of its components, so      *)
(* "s3://usgs-landsat" / key is the concatenation of the root's components *)
(* and the key's.  A scene key "collection02/.../<display id>/" is         *)
(* <<"collection02", k>> with k a number standing for the rest of the key. *)
(* A Python list built by iterating a set is kept as its set of elements   *)
(* together with its type ("list" or "set"); len() is the cardinality.     *)
(***************************************************************************)
EXTENDS Integers, Sequences, FiniteSets, TLC

VARIABLES
    \* ---- landsat_gap_report.py: one entry per invocation (process) ----
    args,             \* bucket_name, satellite_name, update_stac, notification_url
    inventory,        \* scene keys list_inventory yields for the satellite
    bulk,             \* scene keys the filtered bulk file yields
    date_string,      \* datetime.now().strftime("%Y-%m-%d")
    pc,               \* position of the invocation in generate_buckets_diff
    dest_paths,
    source_paths,
    missing_scenes,
    orphaned_scenes,
    output_filename,
    report_output,
    message,
    outcome,          \* how the invocation ended
    trace,            \* externally visible steps of the invocation, in order
    s3,               \* destination storage: key -> body
    slack,            \* notifications delivered to the webhook
    \* ---- chirps.py: one invocation at a time ----
    cargs,            \* year, month, day, overwrite, daily, slack_url
    cpc,              \* position of the invocation in download_and_cog_chirps
    store,            \* keys present in the destination storage
    pre_store,        \* store when the invocation started
    steps,            \* steps the invocation attempted, in order
    exit_status,      \* exit status of the invocation's process
    prev              \* summary of the previous invocation

gapvars == <<args, inventory, bulk, date_string, pc, dest_paths, source_paths,
             missing_scenes, orphaned_scenes, output_filename, report_output,
             message, outcome, trace, s3, slack>>
chirpsvars == <<cargs, cpc, store, pre_store, steps, exit_status, prev>>
vars == <<gapvars, chirpsvars>>

----------------------------------------------------------------------------
(* Bounds *)
MaxKey == 2         \* scene keys that vary freely between the two listings
MaxParKey == 1      \* the same, for two invocations run in parallel

(* Program constants *)
THRESHOLD == 200

None == "None"
USGS_S3_BUCKET_PATH == <<"s3:", "usgs-landsat">>
NO_MISSING == <<"No missing scenes were found">>

SceneKey(k) == <<"collection02", k>>

\* URL(...) / path
Join(url, path) == url \o path

\* satellite_name.upper()
Upper(s) ==
    CASE s = "landsat_8" -> "LANDSAT_8"
      [] s = "landsat_7" -> "LANDSAT_7"
      [] s = "landsat_5" -> "LANDSAT_5"
      [] OTHER -> "LANDSAT_4"

\* the components of a bucket name, for the test '"dev" in bucket_name'
BucketWords(b) ==
    CASE b = "deafrica-landsat-dev" -> {"deafrica", "landsat", "dev"}
      [] OTHER -> {"deafrica", "landsat"}

Environment(b) == IF "dev" \in BucketWords(b) THEN "DEV" ELSE "PDS"

\* get_and_filter_keys: the prefix of a supported satellite, None otherwise
SatPrefix(landsat) ==
    CASE landsat = "landsat_8" -> "LC08"
      [] landsat = "landsat_7" -> "LE07"
      [] landsat = "landsat_5" -> "LT05"
      [] OTHER -> None

Len_(coll) == Cardinality(coll.elems)

PyList(S) == [type |-> "list", elems |-> S]
PySet(S) == [type |-> "set", elems |-> S]

\* a forced update that still takes the difference with the inventory
ForcedMissingDiff(src, dst) == PySet(src \ dst)

\* the missing scenes of the forced update: the bulk keys as they are
ForcedMissing(src, dst) == PySet(src)

\* the missing scenes without the difference: every key of the source
MissingScenesNoDiff(src, dst) ==
    PyList({Join(USGS_S3_BUCKET_PATH, path) : path \in src})

\* the missing scenes: in the source but not in the bucket, as source URLs
MissingScenes(src, dst) ==
    PyList({Join(USGS_S3_BUCKET_PATH, path) : path \in src \ dst})

\* the orphan scenes: in the bucket but not in the files, as bucket URLs
OrphanedScenes(bucket, src, dst) ==
    PyList({Join(<<"s3:", bucket>>, path) : path \in dst \ src})

\* the name of the report object
OutputFilename(satellite, date, force) ==
    IF ~force THEN <<satellite, date, "gap_report.json">>
    ELSE <<date, "gap_report_update.json">>

StatusReportPath(bucket) == <<"s3:", bucket, "status-report">>
StatusReportUrl(bucket) == <<"https:", bucket, "status-report">>

\* json.dumps raises TypeError on a set: it is not JSON serializable
Serializable(doc) == doc.orphan.type = "list" /\ doc.missing.type = "list"

\* json.dumps: the document as written
JsonDumps(doc) == [orphan |-> doc.orphan.elems, missing |-> doc.missing.elems]

\* a test that looks at the missing scenes only
HasDiffMissingOnly(p) == Len_(missing_scenes[p]) > 0

\* line 215 and line 238: there is something to report
HasDiff(p) == Len_(missing_scenes[p]) > 0 \/ Len_(orphaned_scenes[p]) > 0

\* a threshold that 200 scenes already reach
TooManyInclusive(force, nmissing, norphan) ==
    ~force /\ (nmissing >= THRESHOLD \/ norphan >= THRESHOLD)

\* the condition of the final raise
TooMany(force, nmissing, norphan) ==
    ~force /\ (nmissing > THRESHOLD \/ norphan > THRESHOLD)

\* s3_dump: put one object
Put(storage, key, body) ==
    [k \in DOMAIN storage \cup {key} |-> IF k = key THEN body ELSE storage[k]]

----------------------------------------------------------------------------
(* Inputs *)
Procs == DOMAIN pc

SmallKeys == {SceneKey(k) : k \in 1..MaxKey}
Pad == {SceneKey(k) : k \in (MaxKey + 1)..(MaxKey + THRESHOLD - 1)}
\* listings of a few scenes, and listings around the threshold
SceneSets == (SUBSET SmallKeys) \cup {Pad \cup s : s \in SUBSET SmallKeys}
ParSceneSets ==
    (SUBSET {SceneKey(k) : k \in 1..MaxParKey})
    \cup {{SceneKey(k) : k \in 1..(THRESHOLD + 1)}}

Buckets == {"deafrica-landsat", "deafrica-landsat-dev"}
Satellites == {"landsat_8", "landsat_7", "landsat_5", "landsat_4"}
Supported == {s \in Satellites : SatPrefix(s) # None}
WebhookUrls == {None, "https://hooks.slack.com/services/x"}
Today == "2021-06-01"

ArgSet == [bucket_name : Buckets, satellite_name : Satellites,
           update_stac : BOOLEAN, notification_url : WebhookUrls]

NoList == PyList({})

GapStart(P) ==
    /\ pc = [p \in P |-> "start"]
    /\ dest_paths = [p \in P |-> {}]
    /\ source_paths = [p \in P |-> {}]
    /\ missing_scenes = [p \in P |-> NoList]
    /\ orphaned_scenes = [p \in P |-> NoList]
    /\ output_filename = [p \in P |-> NO_MISSING]
    /\ report_output = [p \in P |-> <<>>]
    /\ message = [p \in P |-> <<>>]
    /\ outcome = [p \in P |-> "running"]
    /\ trace = [p \in P |-> <<>>]
    /\ date_string = [p \in P |-> Today]
    /\ s3 = <<>>
    /\ slack = <<>>

ChirpsIdle ==
    /\ cargs = [year |-> "2020", month |-> "01", day |-> "01",
                overwrite |-> FALSE, daily |-> FALSE, slack_url |-> None]
    /\ cpc = "none"
    /\ store = {}
    /\ pre_store = {}
    /\ steps = <<>>
    /\ exit_status = 0
    /\ prev = [outcome |-> "none", args |-> cargs, cogs |-> 0, puts |-> 0]

\* one invocation of the gap report
Init ==
    /\ args \in [{1} -> ArgSet]
    /\ inventory \in [{1} -> SceneSets]
    /\ bulk \in [{1} -> SceneSets]
    /\ GapStart({1})
    /\ ChirpsIdle

----------------------------------------------------------------------------
(* generate_buckets_diff, one action per step *)

Raise(p, what) ==
    /\ pc' = [pc EXCEPT ![p] = "raised"]
    /\ outcome' = [outcome EXCEPT ![p] = what]

\* lines 169-172: get_and_filter_keys
GetAndFilterKeys(p) ==
    /\ pc[p] = "start"
    /\ IF SatPrefix(args[p].satellite_name) = None
       THEN /\ Raise(p, "unsupported")
            /\ UNCHANGED dest_paths
       ELSE /\ dest_paths' = [dest_paths EXCEPT ![p] = inventory[p]]
            /\ pc' = [pc EXCEPT ![p] = "bulk"]
            /\ UNCHANGED outcome
    /\ UNCHANGED <<args, inventory, bulk, date_string, source_paths,
                   missing_scenes, orphaned_scenes, output_filename,
                   report_output, message, trace, s3, slack, chirpsvars>>

\* lines 177-186: download_file_to_tmp, get_and_filter_keys_from_files
GetAndFilterKeysFromFiles(p) ==
    /\ pc[p] = "bulk"
    /\ source_paths' = [source_paths EXCEPT ![p] = bulk[p]]
    /\ output_filename' = [output_filename EXCEPT ![p] = NO_MISSING]
    /\ pc' = [pc EXCEPT ![p] = "diff"]
    /\ UNCHANGED <<args, inventory, bulk, date_string, dest_paths,
                   missing_scenes, orphaned_scenes, report_output, message,
                   outcome, trace, s3, slack, chirpsvars>>

\* lines 188-211: the forced update, or the two differences
Diff(p) ==
    /\ pc[p] = "diff"
    /\ IF args[p].update_stac
       THEN /\ missing_scenes' = [missing_scenes EXCEPT ![p] =
                   ForcedMissing(source_paths[p], dest_paths[p])]
            /\ orphaned_scenes' = [orphaned_scenes EXCEPT ![p] = PyList({})]
       ELSE /\ missing_scenes' = [missing_scenes EXCEPT ![p] =
                   MissingScenes(source_paths[p], dest_paths[p])]
            /\ orphaned_scenes' = [orphaned_scenes EXCEPT ![p] =
                   OrphanedScenes(args[p].bucket_name, source_paths[p],
                                  dest_paths[p])]
    /\ pc' = [pc EXCEPT ![p] = "report"]
    /\ UNCHANGED <<args, inventory, bulk, date_string, dest_paths,
                   source_paths, output_filename, report_output, message,
                   outcome, trace, s3, slack, chirpsvars>>

\* lines 215-234: the report is written when there is something to report;
\* json.dumps or s3_dump may raise, and the exception is not caught
WriteReport(p) ==
    /\ pc[p] = "report"
    /\ IF HasDiff(p)
       THEN LET name == OutputFilename(args[p].satellite_name, date_string[p],
                                       args[p].update_stac)
                doc == [orphan |-> orphaned_scenes[p],
                        missing |-> missing_scenes[p]]
                url == Join(StatusReportPath(args[p].bucket_name), name)
            IN  /\ output_filename' = [output_filename EXCEPT ![p] = name]
                /\ IF ~Serializable(doc)
                   THEN /\ Raise(p, "TypeError")
                        /\ UNCHANGED <<s3, trace>>
                   ELSE \/ /\ s3' = Put(s3, url, JsonDumps(doc))
                           /\ trace' = [trace EXCEPT ![p] = Append(@, "s3_dump")]
                           /\ pc' = [pc EXCEPT ![p] = "message"]
                           /\ UNCHANGED outcome
                        \/ /\ Raise(p, "dump_failed")
                           /\ UNCHANGED <<s3, trace>>
       ELSE /\ pc' = [pc EXCEPT ![p] = "message"]
            /\ UNCHANGED <<output_filename, s3, trace, outcome>>
    /\ UNCHANGED <<args, inventory, bulk, date_string, dest_paths,
                   source_paths, missing_scenes, orphaned_scenes,
                   report_output, message, slack, chirpsvars>>

\* lines 236-252: the location of the report and the summary
Message(p) ==
    /\ pc[p] = "message"
    /\ LET out == IF HasDiff(p)
                  THEN Join(StatusReportUrl(args[p].bucket_name),
                            output_filename[p])
                  ELSE output_filename[p]
       IN  /\ report_output' = [report_output EXCEPT ![p] = out]
           /\ message' = [message EXCEPT ![p] =
                  <<Upper(args[p].satellite_name),
                    Environment(args[p].bucket_name),
                    Len_(missing_scenes[p]), Len_(orphaned_scenes[p])>>]
    /\ pc' = [pc EXCEPT ![p] = "check"]
    /\ UNCHANGED <<args, inventory, bulk, date_string, dest_paths,
                   source_paths, missing_scenes, orphaned_scenes,
                   output_filename, outcome, trace, s3, slack, chirpsvars>>

\* line 254-255: the size of the diff decides between return and raise
Check(p) ==
    /\ pc[p] = "check"
    /\ IF TooMany(args[p].update_stac, Len_(missing_scenes[p]),
                  Len_(orphaned_scenes[p]))
       THEN /\ pc' = [pc EXCEPT ![p] =
                   IF args[p].notification_url # None THEN "notify"
                   ELSE "raise"]
            /\ UNCHANGED outcome
       ELSE /\ pc' = [pc EXCEPT ![p] = "returned"]
            /\ outcome' = [outcome EXCEPT ![p] = "returned"]
    /\ UNCHANGED <<args, inventory, bulk, date_string, dest_paths,
                   source_paths, missing_scenes, orphaned_scenes,
                   output_filename, report_output, message, trace, s3, slack,
                   chirpsvars>>

\* lines 256-258: send_slack_notification
Notify(p) ==
    /\ pc[p] = "notify"
    /\ slack' = Append(slack, <<args[p].satellite_name, "Gap Report",
                                message[p], report_output[p]>>)
    /\ trace' = [trace EXCEPT ![p] = Append(@, "notify")]
    /\ pc' = [pc EXCEPT ![p] = "raise"]
    /\ UNCHANGED <<args, inventory, bulk, date_string, dest_paths,
                   source_paths, missing_scenes, orphaned_scenes,
                   output_filename, report_output, message, outcome, s3,
                   chirpsvars>>

\* line 259: raise Exception("More than 200 scenes were found ...")
RaiseTooMany(p) ==
    /\ pc[p] = "raise"
    /\ Raise(p, "too_many")
    /\ trace' = [trace EXCEPT ![p] = Append(@, "raise")]
    /\ UNCHANGED <<args, inventory, bulk, date_string, dest_paths,
                   source_paths, missing_scenes, orphaned_scenes,
                   output_filename, report_output, message, s3, slack,
                   chirpsvars>>

Next ==
    \/ \E p \in Procs : GetAndFilterKeys(p)
    \/ \E p \in Procs : GetAndFilterKeysFromFiles(p)
    \/ \E p \in Procs : Diff(p)
    \/ \E p \in Procs : WriteReport(p)
    \/ \E p \in Procs : Message(p)
    \/ \E p \in Procs : Check(p)
    \/ \E p \in Procs : Notify(p)
    \/ \E p \in Procs : RaiseTooMany(p)

Spec == Init /\ [][Next]_vars

\* two invocations for different satellites, the same bucket and the same date
InitPar ==
    /\ args \in [{1, 2} -> ArgSet]
    /\ args[1].satellite_name = "landsat_8"
    /\ args[2].satellite_name \in Supported \ {"landsat_8"}
    /\ args[1].bucket_name = args[2].bucket_name
    /\ args[2].notification_url = None
    /\ inventory \in [{1, 2} -> ParSceneSets]
    /\ bulk \in [{1, 2} -> ParSceneSets]
    /\ GapStart({1, 2})
    /\ ChirpsIdle

SpecPar == InitPar /\ [][Next]_vars

----------------------------------------------------------------------------
(* download_and_cog_chirps *)

S3_MONTHLY_DST == "s3://deafrica-data-dev-af/rainfall_chirps_monthy"
S3_DAILY_DST == "s3://deafrica-data-dev-af/rainfall_chirps_daily"

\* lines 46-62: the destination keys
OutData(a) ==
    IF a.daily
    THEN <<S3_DAILY_DST, a.year, "chirps-v2.0", a.year, a.month, a.day, "tif">>
    ELSE <<S3_MONTHLY_DST, "chirps-v2.0", a.year, a.month, "tif">>

OutStac(a) ==
    IF a.daily
    THEN <<S3_DAILY_DST, a.year, "chirps-v2.0", a.year, a.month, a.day,
           "stac-item.json">>
    ELSE <<S3_MONTHLY_DST, "chirps-v2.0", a.year, a.month, "stac-item.json">>

\* line 67: whether s3_head_object is called at all ("not overwrite and ...")
ChecksExistence(a) == ~a.overwrite

\* a skip that tests the overwrite flag the wrong way round
SkipsInverted(a, found) == a.overwrite /\ found

\* line 67: the invocation skips the work
Skips(a, found) == ~a.overwrite /\ found

\* the try block with the STAC document written before the raster
SuccStacFirst(op) ==
    CASE op = "head" -> "cog"
      [] op = "cog" -> "stac"
      [] op = "stac" -> "dump_stac"
      [] op = "dump_stac" -> "dump_data"
      [] op = "dump_data" -> "returned"

\* the order of the statements of the try block, lines 64-147
Succ(op) ==
    CASE op = "head" -> "cog"
      [] op = "cog" -> "stac"
      [] op = "stac" -> "dump_data"
      [] op = "dump_data" -> "dump_stac"
      [] op = "dump_stac" -> "returned"

\* an except block that exits without notifying
HandlerNoNotify(a) == <<"exit">>

\* lines 149-156: what the except block does
Handler(a) ==
    IF a.slack_url # None THEN <<"notify", "exit">> ELSE <<"exit">>

\* line 156: exit(1)
ExitCode == 1

Years == {"2020"}
Months == {"01"}
Days == {"01", "02"}

CArgSet == [year : Years, month : Months, day : Days, overwrite : BOOLEAN,
            daily : BOOLEAN, slack_url : WebhookUrls]

Did(op, ok) == [op |-> op, ok |-> ok]

Ended == cpc \in {"returned", "exited"}

\* the objects this invocation has put
Written ==
    {OutData(cargs) : i \in {j \in 1..Len(steps) :
                                steps[j] = Did("dump_data", TRUE)}}
    \cup
    {OutStac(cargs) : i \in {j \in 1..Len(steps) :
                                steps[j] = Did("dump_stac", TRUE)}}

Ops == {steps[i].op : i \in 1..Len(steps)}

\* how many times the invocation attempted op
Count(op) == Cardinality({i \in 1..Len(steps) : steps[i].op = op})

RunOutcome ==
    CASE cpc = "exited" -> "aborted"
      [] cpc = "returned" /\ "dump_stac" \in Ops -> "completed"
      [] cpc = "returned" -> "skipped"
      [] OTHER -> "none"

\* a new process runs download_and_cog_chirps
Invoke ==
    /\ cpc = "none" \/ Ended
    /\ \E a \in CArgSet : cargs' = a
    /\ prev' = [outcome |-> RunOutcome, args |-> cargs,
                cogs |-> Count("cog"), puts |-> Cardinality(Written)]
    /\ cpc' = "head"
    /\ steps' = <<>>
    /\ pre_store' = store
    /\ exit_status' = 0
    /\ UNCHANGED <<store, gapvars>>

\* a statement of the try block raises
Fails(op) ==
    /\ steps' = Append(steps, Did(op, FALSE))
    /\ cpc' = Handler(cargs)[1]
    /\ UNCHANGED <<cargs, store, pre_store, exit_status, prev, gapvars>>

\* lines 66-69: the existence check
HeadObject ==
    /\ cpc = "head"
    /\ IF ChecksExistence(cargs)
       THEN \/ /\ steps' = Append(steps, Did("head", TRUE))
               /\ cpc' = IF Skips(cargs, OutStac(cargs) \in store)
                         THEN "returned" ELSE Succ("head")
               /\ UNCHANGED <<cargs, store, pre_store, exit_status, prev,
                              gapvars>>
            \/ Fails("head")
       ELSE /\ cpc' = IF Skips(cargs, OutStac(cargs) \in store)
                      THEN "returned" ELSE Succ("head")
            /\ UNCHANGED <<steps, cargs, store, pre_store, exit_status, prev,
                           gapvars>>

\* lines 72-80: cog_translate
CogTranslate ==
    /\ cpc = "cog"
    /\ \/ /\ steps' = Append(steps, Did("cog", TRUE))
          /\ cpc' = Succ("cog")
          /\ UNCHANGED <<cargs, store, pre_store, exit_status, prev, gapvars>>
       \/ Fails("cog")

\* lines 83-132: create_stac_item and the asset and link of the item
CreateStacItem ==
    /\ cpc = "stac"
    /\ \/ /\ steps' = Append(steps, Did("stac", TRUE))
          /\ cpc' = Succ("stac")
          /\ UNCHANGED <<cargs, store, pre_store, exit_status, prev, gapvars>>
       \/ Fails("stac")

\* lines 135-137: s3_dump of the raster
DumpData ==
    /\ cpc = "dump_data"
    /\ \/ /\ steps' = Append(steps, Did("dump_data", TRUE))
          /\ store' = store \cup {OutData(cargs)}
          /\ cpc' = Succ("dump_data")
          /\ UNCHANGED <<cargs, pre_store, exit_status, prev, gapvars>>
       \/ Fails("dump_data")

\* lines 139-147: s3_dump of the STAC document
DumpStac ==
    /\ cpc = "dump_stac"
    /\ \/ /\ steps' = Append(steps, Did("dump_stac", TRUE))
          /\ store' = store \cup {OutStac(cargs)}
          /\ cpc' = Succ("dump_stac")
          /\ UNCHANGED <<cargs, pre_store, exit_status, prev, gapvars>>
       \/ Fails("dump_stac")

\* lines 152-153: send_slack_notification
NotifyFailure ==
    /\ cpc = "notify"
    /\ steps' = Append(steps, Did("notify", TRUE))
    /\ cpc' = "exit"
    /\ UNCHANGED <<cargs, store, pre_store, exit_status, prev, gapvars>>

\* line 156: exit(1)
Exit ==
    /\ cpc = "exit"
    /\ steps' = Append(steps, Did("exit", TRUE))
    /\ exit_status' = ExitCode
    /\ cpc' = "exited"
    /\ UNCHANGED <<cargs, store, pre_store, prev, gapvars>>

InitChirps ==
    /\ args = [p \in {1} |-> CHOOSE a \in ArgSet : TRUE]
    /\ inventory = [p \in {1} |-> {}]
    /\ bulk = [p \in {1} |-> {}]
    /\ GapStart({1})
    /\ ChirpsIdle

NextChirps ==
    \/ Invoke
    \/ HeadObject
    \/ CogTranslate
    \/ CreateStacItem
    \/ DumpData
    \/ DumpStac
    \/ NotifyFailure
    \/ Exit

SpecChirps == InitChirps /\ [][NextChirps]_vars

----------------------------------------------------------------------------
(* Properties of generate_buckets_diff *)

\* the invocation has computed its two collections
Reconciled(p) == pc[p] \in {"report", "message", "check", "notify", "raise",
                            "returned"}
                 \/ outcome[p] \in {"TypeError", "dump_failed", "too_many"}

\* the invocation is over
Over(p) == pc[p] \in {"returned", "raised"}

IsUrl(u) == Len(u) > 2 /\ u[1] = "s3:"
Root(u) == SubSeq(u, 1, 2)
KeyOf(u) == SubSeq(u, 3, Len(u))

ReportKey(p) ==
    <<"s3:", args[p].bucket_name, "status-report">> \o
    (IF args[p].update_stac
     THEN <<date_string[p], "gap_report_update.json">>
     ELSE <<args[p].satellite_name, date_string[p], "gap_report.json">>)

ReportUrl(p) ==
    <<"https:", args[p].bucket_name, "status-report">> \o
    (IF args[p].update_stac
     THEN <<date_string[p], "gap_report_update.json">>
     ELSE <<args[p].satellite_name, date_string[p], "gap_report.json">>)

Dumps(p) == Cardinality({i \in 1..Len(trace[p]) : trace[p][i] = "s3_dump"})

\* C1: without the forced update, the missing list is exactly the keys in the
\* bulk file and not in the inventory, each under s3://usgs-landsat, the orphan
\* list is exactly the keys in the inventory and not in the bulk file, each
\* under s3://<bucket_name>, and no key is in both lists.
C1_Difference ==
    \A p \in Procs :
        Reconciled(p) /\ ~args[p].update_stac =>
            LET M == missing_scenes[p].elems
                R == orphaned_scenes[p].elems
            IN  /\ \A u \in M : IsUrl(u) /\ Root(u) = <<"s3:", "usgs-landsat">>
                /\ \A u \in R : IsUrl(u)
                                /\ Root(u) = <<"s3:", args[p].bucket_name>>
                /\ {KeyOf(u) : u \in M} = bulk[p] \ inventory[p]
                /\ {KeyOf(u) : u \in R} = inventory[p] \ bulk[p]
                /\ Cardinality(M) = Cardinality(bulk[p] \ inventory[p])
                /\ Cardinality(R) = Cardinality(inventory[p] \ bulk[p])
                /\ {KeyOf(u) : u \in M} \cap {KeyOf(u) : u \in R} = {}

C1_Witness ==
    \E p \in Procs :
        /\ pc[p] = "returned"
        /\ ~args[p].update_stac
        /\ bulk[p] \ inventory[p] # {}
        /\ inventory[p] \ bulk[p] # {}
        /\ bulk[p] \cap inventory[p] # {}
        /\ Dumps(p) = 1

\* C2: in the forced update the missing collection is the set of bulk keys
\* and the orphan collection is empty, whatever the inventory holds.
C2_Forced ==
    \A p \in Procs :
        Reconciled(p) /\ args[p].update_stac =>
            /\ missing_scenes[p].elems = bulk[p]
            /\ orphaned_scenes[p].elems = {}

C2_Witness ==
    \E p \in Procs :
        /\ Reconciled(p)
        /\ args[p].update_stac
        /\ bulk[p] \cap inventory[p] # {}
        /\ bulk[p] \ inventory[p] # {}
        /\ inventory[p] \ bulk[p] # {}

\* C3: an invocation that gets as far as the check of the size raises the
\* "more than 200 scenes" exception exactly when the forced update is off and
\* more than 200 scenes are missing or more than 200 are orphans.
C3_Threshold ==
    \A p \in Procs :
        LET nmissing == Cardinality(bulk[p] \ inventory[p])
            norphan == Cardinality(inventory[p] \ bulk[p])
            fatal == ~args[p].update_stac /\ (nmissing > 200 \/ norphan > 200)
        IN  /\ outcome[p] = "too_many" => fatal
            /\ pc[p] \in {"notify", "raise"} => fatal
            /\ outcome[p] = "returned" => ~fatal
            /\ Over(p) /\ ~args[p].update_stac
               /\ outcome[p] \notin {"unsupported", "dump_failed"}
               => outcome[p] = (IF fatal THEN "too_many" ELSE "returned")

C3_Witness ==
    \E p \in Procs :
        /\ outcome[p] = "returned"
        /\ ~args[p].update_stac
        /\ Len_(missing_scenes[p]) = 200
        /\ Len_(orphaned_scenes[p]) > 0

\* C4: when the invocation notifies or raises for the size of the diff, its
\* report is already in storage: the upload is the first thing it did.
C4_ReportFirst ==
    \A p \in Procs :
        pc[p] \in {"notify", "raise"} \/ outcome[p] = "too_many" =>
            /\ Len(trace[p]) > 0
            /\ trace[p][1] = "s3_dump"
            /\ Dumps(p) = 1
            /\ ReportKey(p) \in DOMAIN s3
            /\ s3[ReportKey(p)] = [orphan |-> orphaned_scenes[p].elems,
                                   missing |-> missing_scenes[p].elems]

C4_Witness ==
    \E p \in Procs :
        /\ outcome[p] = "too_many"
        /\ trace[p] = <<"s3_dump", "notify", "raise">>
        /\ Len_(missing_scenes[p]) = 0

\* C5: an invocation whose two collections are both empty writes nothing and
\* reports "No missing scenes were found"; one with a non-empty collection
\* writes exactly one report object and reports its URL.
C5_ZeroResult ==
    \A p \in Procs :
        Over(p) /\ outcome[p] \notin {"unsupported", "dump_failed"} =>
            IF Len_(missing_scenes[p]) = 0 /\ Len_(orphaned_scenes[p]) = 0
            THEN /\ Dumps(p) = 0
                 /\ ReportKey(p) \notin DOMAIN s3
                 /\ report_output[p] = NO_MISSING
            ELSE /\ Dumps(p) = 1
                 /\ ReportKey(p) \in DOMAIN s3
                 /\ report_output[p] = ReportUrl(p)

\* C9: every entry of the two collections of a report is a storage URL, with
\* the forced update as without it.
C9_QualifiedUrls ==
    \A p \in Procs :
        Reconciled(p) =>
            /\ \A u \in missing_scenes[p].elems : IsUrl(u)
            /\ \A u \in orphaned_scenes[p].elems : IsUrl(u)

\* C7: once two invocations for different satellites are over, each one that
\* had something to report (and whose upload did not fail) finds its own
\* report in storage, under a key the other does not use.
C7_Independent ==
    (\A p \in Procs : Over(p)) =>
        \A p \in Procs :
            HasDiff(p) /\ outcome[p] # "dump_failed" =>
                /\ ReportKey(p) \in DOMAIN s3
                /\ s3[ReportKey(p)] = [orphan |-> orphaned_scenes[p].elems,
                                       missing |-> missing_scenes[p].elems]
                /\ \A q \in Procs \ {p} : ReportKey(q) # ReportKey(p)

----------------------------------------------------------------------------
(* Properties of download_and_cog_chirps *)

Tried(op) == \E i \in 1..Len(steps) : steps[i].op = op
Failed(op) == \E i \in 1..Len(steps) : steps[i] = Did(op, FALSE)

\* C6: an invocation with overwrite unset that follows a completed invocation
\* with the same parameters converts nothing and writes nothing, so that the
\* two together convert once and upload twice; it is skipped for the
\* metadata object it finds, unless the existence check itself fails.
C6_Idempotent ==
    Ended /\ prev.outcome = "completed" /\ prev.args = cargs
    /\ ~cargs.overwrite =>
        /\ Count("cog") = 0
        /\ Written = {}
        /\ store = pre_store
        /\ prev.cogs + Count("cog") = 1
        /\ prev.puts + Cardinality(Written) = 2
        /\ {OutData(cargs), OutStac(cargs)} \subseteq store
        /\ RunOutcome = "skipped" \/ Failed("head")

C6_Witness ==
    /\ Ended
    /\ prev.outcome = "completed"
    /\ prev.args = cargs
    /\ ~cargs.overwrite
    /\ RunOutcome = "skipped"
    /\ exit_status = 0

\* C8: whenever the metadata object of a tile is in storage, so is its raster.
C8_StacImpliesRaster ==
    \A a \in CArgSet : OutStac(a) \in store => OutData(a) \in store

C8_Witness ==
    \E a, b \in CArgSet :
        /\ OutStac(a) \in store
        /\ OutData(b) \in store
        /\ OutStac(b) \notin store
        /\ cpc = "exited"

SkippedRun ==
    /\ cpc = "returned"
    /\ exit_status = 0
    /\ ~cargs.overwrite
    /\ OutStac(cargs) \in pre_store
    /\ steps = <<Did("head", TRUE)>>
    /\ store = pre_store

CompletedRun ==
    /\ cpc = "returned"
    /\ exit_status = 0
    /\ steps = (IF cargs.overwrite THEN <<>> ELSE <<Did("head", TRUE)>>)
               \o <<Did("cog", TRUE), Did("stac", TRUE),
                    Did("dump_data", TRUE), Did("dump_stac", TRUE)>>
    /\ store = pre_store \cup {OutData(cargs), OutStac(cargs)}

AbortedRun ==
    /\ cpc = "exited"
    /\ exit_status = 1
    /\ \E n \in 1..Len(steps) :
          /\ ~steps[n].ok
          /\ \A i \in 1..(n - 1) : steps[i].ok
          /\ SubSeq(steps, n + 1, Len(steps)) =
                IF cargs.slack_url # None
                THEN <<Did("notify", TRUE), Did("exit", TRUE)>>
                ELSE <<Did("exit", TRUE)>>
    /\ store = pre_store \cup Written
    /\ Tried("dump_stac") => OutData(cargs) \in store
    /\ OutStac(cargs) \in store => OutStac(cargs) \in pre_store

\* C10: an invocation ends skipped, completed or aborted with exit status 1,
\* and in one of the three only; no step is attempted twice; an aborted
\* invocation notifies first when a webhook is configured, and keeps the
\* raster it has written.
C10_Outcomes ==
    /\ \A op \in {"head", "cog", "stac", "dump_data", "dump_stac", "notify",
                  "exit"} : Count(op) <= 1
    /\ Ended =>
        /\ SkippedRun \/ CompletedRun \/ AbortedRun
        /\ ~(SkippedRun /\ CompletedRun)
        /\ ~(SkippedRun /\ AbortedRun)
        /\ ~(CompletedRun /\ AbortedRun)
    /\ exit_status \in {0, 1}
    /\ exit_status = 1 <=> cpc = "exited"

C10_Witness ==
    /\ cpc = "exited"
    /\ Failed("dump_stac")
    /\ cargs.slack_url # None
    /\ OutData(cargs) \in store \ pre_store
    /\ OutStac(cargs) \notin store

====
